---- MODULE Spec2Model ----
(***************************************************************************)
(* dsz: directory size and directory tree.                                 *)
(*                                                                         *)
(* The model follows src/src/main.rs (main, dir_size,                      *)
(* size_in_bytes_pretty_string) and src/src/tree.rs (SortType,             *)
(* file_is_hidden, dir_entry_size, TreeBranch, generate_tree_string).      *)
(* The filesystem is an input: it is chosen in Init and never changes      *)
(* during a run.  walkdir is modelled by its documented behaviour:         *)
(* pre-order, symlinks not followed, sort_by applied to the entries of     *)
(* each directory, max_depth, filter_entry pruning, an unreadable          *)
(* directory yielded and followed by an error item.                        *)
(***************************************************************************)
EXTENDS Integers, Sequences, FiniteSets, TLC

VARIABLES
    fs,        \* the filesystem: path -> node attributes
    root,      \* canon_dir, the canonical root path
    args,      \* TreeArgs
    pc,        \* position in main / generate_tree_string / the formatter run
    summary,   \* (size, file_count) of main's dir_size(&canon_dir)
    size_str,  \* result of size_in_bytes_pretty_string
    iter,      \* peekable_tree_iter: the entries still to be yielded
    branches,  \* the lines pushed so far
    walks,     \* path -> number of times dir_size walked it in this run
    fmt_size   \* the u64 handed to size_in_bytes_pretty_string (base-1024 limbs)

vars == <<fs, root, args, pc, summary, size_str, iter, branches, walks, fmt_size>>

(***************************************************************************)
(* Bounds of the model.                                                    *)
(***************************************************************************)
\* number of entries below the root
MaxNodes == 2
\* regular files have lengths 1..MaxFileLen
MaxFileLen == 2
\* --depth ranges over 1..MaxDepthArg
MaxDepthArg == 2
\* number of entries below the root in the runs of the metadata sorts
MaxSortNodes == 3

(***************************************************************************)
(* Orderings (std::cmp::Ordering) and results.                             *)
(***************************************************************************)
Reverse(o) == CASE o = "Less" -> "Greater" [] o = "Greater" -> "Less" [] OTHER -> "Equal"

ThenWith(o, p) == IF o = "Equal" THEN p ELSE o

CmpInt(x, y) == IF x < y THEN "Less" ELSE IF x > y THEN "Greater" ELSE "Equal"

\* bool: false < true
CmpBool(x, y) == CmpInt(IF x THEN 1 ELSE 0, IF y THEN 1 ELSE 0)

\* OsStr comparison: lexicographic on the bytes
RECURSIVE CmpBytes(_, _)
CmpBytes(s, t) ==
    IF s = <<>> THEN (IF t = <<>> THEN "Equal" ELSE "Less")
    ELSE IF t = <<>> THEN "Greater"
    ELSE IF Head(s) # Head(t) THEN CmpInt(Head(s), Head(t))
    ELSE CmpBytes(Tail(s), Tail(t))

Ok(v) == [ok |-> TRUE, val |-> v]
Err == [ok |-> FALSE]
None == [some |-> FALSE]
Some(v) == [some |-> TRUE, val |-> v]

RECURSIVE SumSeq(_)
SumSeq(s) == IF s = <<>> THEN 0 ELSE Head(s) + SumSeq(Tail(s))

(***************************************************************************)
(* The filesystem.  A path is the sequence of its normal components (the   *)
(* leading "/" is implicit); a file name is its sequence of bytes.         *)
(***************************************************************************)
NameH == <<46, 104>>   \* ".h"
NameA == <<97>>        \* "a"
NameB == <<98>>        \* "b"

\* the entries a root may have, relative to the root
RelCand ==
    { <<NameH>>, <<NameA>>, <<NameB>>,
      <<NameH, NameA>>, <<NameA, NameA>>, <<NameA, NameB>>,
      <<NameA, NameA, NameA>> }

Parent(p) == SubSeq(p, 1, Len(p) - 1)

Shapes ==
    { S \in SUBSET RelCand :
        /\ Cardinality(S) <= MaxNodes
        /\ \A q \in S : Len(q) > 1 => Parent(q) \in S }

\* a readable directory
DirNode ==
    [ty |-> "dir", len |-> 0, meta_ok |-> TRUE, read_ok |-> TRUE,
     link_dir |-> FALSE, mtime |-> 1, ctime |-> 1]

\* what an entry without children can be: a regular file, a file whose
\* metadata cannot be read, an empty or an unreadable directory, a symlink
\* to a directory
LeafNodes ==
    { [ty |-> "file", len |-> k, meta_ok |-> TRUE, read_ok |-> FALSE,
       link_dir |-> FALSE, mtime |-> k, ctime |-> MaxFileLen + 1 - k] : k \in 1..MaxFileLen }
    \cup
    { [ty |-> "file", len |-> 1, meta_ok |-> FALSE, read_ok |-> FALSE,
       link_dir |-> FALSE, mtime |-> 1, ctime |-> 1],
      DirNode,
      [DirNode EXCEPT !.read_ok = FALSE],
      [ty |-> "symlink", len |-> 1, meta_ok |-> TRUE, read_ok |-> FALSE,
       link_dir |-> TRUE, mtime |-> 1, ctime |-> 1] }

IsLeaf(S, q) == \A r \in S : Len(r) > Len(q) => SubSeq(r, 1, Len(q)) # q

\* the filesystems with root directory rt and the entries S below it: an entry
\* with children is a readable directory, and so is the root unless it is empty
FileSystems(rt, S) ==
    { f \in [ {rt} \cup { rt \o q : q \in S } -> LeafNodes ] :
        /\ f[rt].ty = "dir"
        /\ S # {} => f[rt] = DirNode
        /\ \A q \in S : ~IsLeaf(S, q) => f[rt \o q] = DirNode }

SortTypes == {"Name", "Size", "ModifiedDate", "CreatedDate"}

TreeArgs ==
    [depth : 1..MaxDepthArg, sort_type : SortTypes, no_hidden : BOOLEAN,
     show_size : BOOLEAN, reverse_sort : BOOLEAN]

(***************************************************************************)
(* Paths and directory entries.                                            *)
(***************************************************************************)
\* Path::components().count(): the root directory component and the names
components_count(p) == Len(p) + 1

\* Path::file_name()
file_name(p) == p[Len(p)]

\* DirEntry::file_type(): the type of the entry itself, links not followed
file_type_is_dir(p) == fs[p].ty = "dir"
file_type_is_file(p) == fs[p].ty = "file"

\* Path::is_dir(): follows symbolic links
path_is_dir(p) == fs[p].ty = "dir" \/ (fs[p].ty = "symlink" /\ fs[p].link_dir)

\* DirEntry::metadata() / std::fs::symlink_metadata
metadata(p) == IF fs[p].meta_ok THEN Ok(fs[p]) ELSE Err

Children(p) == { q \in DOMAIN fs : Len(q) = Len(p) + 1 /\ Parent(q) = p }

RECURSIVE ByName(_)
ByName(S) ==
    IF S = {} THEN <<>>
    ELSE LET m == CHOOSE x \in S : \A y \in S : CmpBytes(file_name(x), file_name(y)) # "Greater"
         IN  <<m>> \o ByName(S \ {m})

\* std::fs::read_dir as walkdir consumes it: the entries of a directory, none
\* when the directory cannot be read
read_dir(p) == IF fs[p].read_ok THEN ByName(Children(p)) ELSE <<>>

(***************************************************************************)
(* main.rs: dir_size                                                       *)
(***************************************************************************)
\* walkdir::WalkDir::new(dir).into_iter().filter_map(Result::ok)
RECURSIVE WalkAll(_), WalkAllList(_)
WalkAll(p) ==
    <<p>> \o (IF file_type_is_dir(p) THEN WalkAllList(read_dir(p)) ELSE <<>>)
WalkAllList(l) ==
    IF l = <<>> THEN <<>> ELSE WalkAll(Head(l)) \o WalkAllList(Tail(l))

\* a filter that keeps everything but directories (symlinks too)
SelectNonDirs(s) == SelectSeq(s, LAMBDA p : ~file_type_is_dir(p))

\* Iterator::filter
SelectFiles(s) == SelectSeq(s, file_type_is_file)

\* the closure of .map(): the length, or 0 when the metadata cannot be read
file_len(p) == IF metadata(p).ok THEN metadata(p).val.len ELSE 0

\* file_sizes.iter().sum() is a u64 sum; the lengths of the model stay far
\* below 2^64, so the sum is the integer sum
dir_size(dir) ==
    LET entries == SelectFiles(WalkAll(dir))
        file_sizes == [i \in 1..Len(entries) |-> file_len(entries[i])]
    IN  <<SumSeq(file_sizes), Len(file_sizes)>>

(***************************************************************************)
(* main.rs: size_in_bytes_pretty_string                                    *)
(*                                                                         *)
(* A u64 is held as its seven base-1024 limbs, least significant first     *)
(* (the seventh limb holds bits 60..63).  `size as f64` is exact below     *)
(* 2^53; from 2^50 on the function reads nothing of the value but          *)
(* `size >= 1024.0`, which rounding to 53 bits cannot change.  Dividing an *)
(* f64 by 1024.0 is exact, so after i divisions the f64 is the limbs with  *)
(* the point moved i limbs up.                                             *)
(***************************************************************************)
SIZES_SIZE == 5
SIZES == <<"B", "KB", "MB", "GB", "TB">>

Limbs == 7

\* a small integer as a u64
U64(n) == [k \in 1..Limbs |-> IF k = 1 THEN n % 1024 ELSE IF k = 2 THEN (n \div 1024) % 1024 ELSE 0]

\* size >= 1024.0 after i divisions
GE1024(l, i) == \E k \in (i + 2)..Limbs : l[k] # 0

\* while i < SIZES_SIZE && size >= 1024.0 { size /= 1024.0; i += 1; }
RECURSIVE ScaleLoop(_, _)
ScaleLoop(l, i) == IF i < SIZES_SIZE /\ GE1024(l, i) THEN ScaleLoop(l, i + 1) ELSE i

\* a fraction (limbs below the point, least significant first) times a small
\* integer: the fraction of the product and its integer part
RECURSIVE MulSmallFrom(_, _, _, _)
MulSmallFrom(fr, m, k, c) ==
    IF k > Len(fr) THEN [limbs |-> <<>>, carry |-> c]
    ELSE LET t == fr[k] * m + c
             r == MulSmallFrom(fr, m, k + 1, t \div 1024)
         IN  [limbs |-> <<t % 1024>> \o r.limbs, carry |-> r.carry]
MulSmall(fr, m) == MulSmallFrom(fr, m, 1, 0)

IsZero(fr) == \A k \in 1..Len(fr) : fr[k] = 0

\* a fraction compared with one half
CmpHalf(fr) ==
    IF Len(fr) = 0 THEN "Less"
    ELSE IF fr[Len(fr)] # 512 THEN CmpInt(fr[Len(fr)], 512)
    ELSE IF IsZero(SubSeq(fr, 1, Len(fr) - 1)) THEN "Equal" ELSE "Greater"

\* f64::round of a non-negative value: half away from zero
RoundF64(r) == IF CmpHalf(r.limbs) = "Less" THEN r.carry ELSE r.carry + 1

\* the decimal digits of a fraction
RECURSIVE ExactDigits(_)
ExactDigits(fr) ==
    IF IsZero(fr) THEN <<>>
    ELSE LET r == MulSmall(fr, 10) IN <<r.carry>> \o ExactDigits(r.limbs)

\* format!("{size}"): Display of an f64 prints the shortest decimal that reads
\* back as the same f64, and no decimal point for a whole number.  A fraction
\* of one limb has at most ten digits, so the shortest decimal is the exact one
\* (FmtInputs keeps to such fractions where this branch prints a fraction).
FormatDisplay(whole, fr) == [whole |-> whole, frac |-> ExactDigits(fr)]

\* format!("{size:.2}"): the exact value rounded to two decimals, half to even
FormatDot2(whole, fr) ==
    LET r == MulSmall(fr, 100)
        h == CmpHalf(r.limbs)
        q == IF h = "Greater" \/ (h = "Equal" /\ r.carry % 2 = 1) THEN r.carry + 1 ELSE r.carry
    IN  IF q = 100 THEN [whole |-> whole + 1, frac |-> <<0, 0>>]
        ELSE [whole |-> whole, frac |-> <<q \div 10, q % 10>>]

Panicked == [panic |-> TRUE]

size_in_bytes_pretty_string(size) ==
    LET i == ScaleLoop(size, 0)
    IN  IF i + 1 > Len(SIZES) THEN Panicked   \* SIZES[i]: index out of bounds
        ELSE LET size_abbrv == SIZES[i + 1]
                 whole == size[i + 1]
                 fract == SubSeq(size, 1, i)
                 first_two_fract == RoundF64(MulSmall(fract, 100))
                 num == IF first_two_fract = 0 THEN FormatDisplay(whole, fract)
                        ELSE FormatDot2(whole, fract)
             IN  [panic |-> FALSE, whole |-> num.whole, frac |-> num.frac,
                  unit |-> size_abbrv]

\* the byte counts the formatter is run on: zero, and for every position of
\* the leading limb a leading limb, the limb below it, and the limbs below
\* that all zero or all 1023
FmtInputs ==
    { [k \in 1..Limbs |-> 0] }
    \cup
    { [k \in 1..Limbs |->
          IF k = top THEN hi ELSE IF k = top - 1 THEN lo ELSE IF k < top THEN fill ELSE 0] :
        <<top, hi, lo, fill>> \in
            { t \in (1..Limbs) \X {1, 2, 15, 1023} \X {0, 1, 5, 6, 128, 512, 1023} \X {0, 1023} :
                /\ t[1] = Limbs => t[2] <= 15
                /\ t[3] <= 5 => t[4] = 0 } }

(***************************************************************************)
(* tree.rs: file_is_hidden, dir_entry_size, SortType::sort_entries         *)
(***************************************************************************)
\* a hidden test that always fails to read the file name
file_is_hidden_err(path) == Err

\* #[cfg(any(unix, not(windows)))]: the final component starts with '.'
file_is_hidden(path) == Ok(Head(file_name(path)) = 46)

unwrap_or(r, d) == IF r.ok THEN r.val ELSE d

dir_entry_size(entry) ==
    IF file_type_is_dir(entry) THEN Ok(dir_size(entry)[1])
    ELSE IF metadata(entry).ok THEN Ok(metadata(entry).val.len) ELSE Err

\* metadata()?.modified()? and metadata()?.created()?
modified(entry) == IF metadata(entry).ok THEN Ok(metadata(entry).val.mtime) ELSE Err
created(entry) == IF metadata(entry).ok THEN Ok(metadata(entry).val.ctime) ELSE Err

\* `x(b)?.cmp(&x(a)?)`: b is evaluated first, and an error returns at once
CmpDesc(rb, ra) == IF ~rb.ok \/ ~ra.ok THEN Err ELSE Ok(CmpInt(rb.val, ra.val))

sort_entries(self, a, b) ==
    CASE self = "Name" -> Ok(CmpBytes(file_name(a), file_name(b)))
      [] self = "Size" -> CmpDesc(dir_entry_size(b), dir_entry_size(a))
      [] self = "ModifiedDate" -> CmpDesc(modified(b), modified(a))
      [] self = "CreatedDate" -> CmpDesc(created(b), created(a))

\* the directories dir_size walks while sort_entries(self, a, b) is evaluated
sort_entries_walks(self, a, b) ==
    IF self # "Size" THEN <<>>
    ELSE (IF file_type_is_dir(b) THEN <<b>> ELSE <<>>)
         \o (IF dir_entry_size(b).ok /\ file_type_is_dir(a) THEN <<a>> ELSE <<>>)

(***************************************************************************)
(* tree.rs: generate_tree_string, the walk                                 *)
(***************************************************************************)
\* the closure given to sort_by
compare(a, b) ==
    LET secondary_ordering == unwrap_or(sort_entries(args.sort_type, a, b), "Less")
    IN  ThenWith(CmpBool(path_is_dir(b), path_is_dir(a)),
                 IF args.reverse_sort THEN Reverse(secondary_ordering)
                 ELSE secondary_ordering)

\* the closure main.rs gives to sort_by: directories first, then by name
main_compare(a, b) ==
    ThenWith(CmpBool(path_is_dir(b), path_is_dir(a)), CmpBytes(file_name(a), file_name(b)))

\* the closure cmp names: that of tree.rs or that of main.rs
call_cmp(cmp, a, b) == IF cmp = "tree" THEN compare(a, b) ELSE main_compare(a, b)

\* slice::sort_by(cmp) on the entries of one directory: a stable insertion
\* sort (what std does for short slices); the element x being inserted moves
\* left while cmp(x, left neighbour) is Less
RECURSIVE sift(_, _, _, _)
sift(cmp, s, x, j) ==
    IF j > 0 /\ call_cmp(cmp, x, s[j]) = "Less" THEN sift(cmp, s, x, j - 1) ELSE j

insert_tail(cmp, s, x) ==
    LET j == sift(cmp, s, x, Len(s))
    IN  SubSeq(s, 1, j) \o <<x>> \o SubSeq(s, j + 1, Len(s))

RECURSIVE sort_from(_, _, _)
sort_from(cmp, s, v) ==
    IF v = <<>> THEN s ELSE sort_from(cmp, insert_tail(cmp, s, Head(v)), Tail(v))

sort_by(cmp, v) == sort_from(cmp, <<>>, v)

\* the pairs compare is called on while x is inserted into s, and over a sort
insert_compares(s, x) ==
    LET j == sift("tree", s, x, Len(s))
        lo == IF j = 0 THEN 1 ELSE j
    IN  [k \in 1..(Len(s) - lo + 1) |-> <<x, s[Len(s) - k + 1]>>]

RECURSIVE sort_compares(_, _)
sort_compares(s, v) ==
    IF v = <<>> THEN <<>>
    ELSE insert_compares(s, Head(v)) \o sort_compares(insert_tail("tree", s, Head(v)), Tail(v))

\* the predicate given to filter_entry
filter_pred(e) == ~args.no_hidden \/ ~unwrap_or(file_is_hidden(e), FALSE)

\* WalkDir::new(root).sort_by(..).max_depth(depth).into_iter().filter_entry(..)
\* .filter_map(|e| e.ok()): e is an entry at depth d
RECURSIVE TreeWalk(_, _), TreeWalkList(_, _)
TreeWalk(e, d) ==
    IF ~filter_pred(e) THEN <<>>
    ELSE <<e>> \o (IF file_type_is_dir(e) /\ d < args.depth
                   THEN TreeWalkList(sort_by("tree", read_dir(e)), d + 1) ELSE <<>>)
TreeWalkList(l, d) ==
    IF l = <<>> THEN <<>> ELSE TreeWalk(Head(l), d) \o TreeWalkList(Tail(l), d)

\* Iterator::skip(1)
skip1(s) == IF s = <<>> THEN <<>> ELSE Tail(s)

\* the directories whose entries the walk sorts, in walk order
SortedDirs ==
    SelectSeq(TreeWalk(root, 0),
              LAMBDA e : file_type_is_dir(e) /\ Len(e) - Len(root) < args.depth)

\* every pair the comparator is called on during the walk
RECURSIVE walk_compares(_)
walk_compares(dirs) ==
    IF dirs = <<>> THEN <<>>
    ELSE sort_compares(<<>>, read_dir(Head(dirs))) \o walk_compares(Tail(dirs))

\* every dir_size call the comparator makes on these pairs
RECURSIVE compare_walks(_)
compare_walks(pairs) ==
    IF pairs = <<>> THEN <<>>
    ELSE sort_entries_walks(args.sort_type, Head(pairs)[1], Head(pairs)[2])
         \o compare_walks(Tail(pairs))

SortWalks == compare_walks(walk_compares(SortedDirs))

Count(s, x) == Cardinality({ i \in 1..Len(s) : s[i] = x })

Walked(w, s) == [p \in DOMAIN w |-> w[p] + Count(s, p)]

(***************************************************************************)
(* The program: main, then generate_tree_string                            *)
(***************************************************************************)
NoFmt == [panic |-> FALSE, whole |-> 0, frac |-> <<>>, unit |-> ""]
Zero == [k \in 1..Limbs |-> 0]

Init ==
    /\ \E rn \in {NameA, NameH}, S \in Shapes :
          /\ root = <<rn>>
          /\ fs \in FileSystems(<<rn>>, S)
    /\ args \in TreeArgs
    /\ pc = "main"
    /\ summary = <<0, 0>>
    /\ size_str = NoFmt
    /\ fmt_size = Zero
    /\ iter = <<>>
    /\ branches = <<>>
    /\ walks = [p \in DOMAIN fs |-> 0]

\* main: the size and file count of the root, and the size as a string.  The
\* root exists and is a directory (main exits otherwise).
Main ==
    /\ pc = "main"
    /\ summary' = dir_size(root)
    /\ walks' = Walked(walks, <<root>>)
    /\ fmt_size' = U64(dir_size(root)[1])
    /\ size_str' = size_in_bytes_pretty_string(U64(dir_size(root)[1]))
    /\ pc' = "tree"
    /\ UNCHANGED <<fs, root, args, iter, branches>>

\* root.display().to_string()
RootLine == [is_root |-> TRUE, text |-> root]

\* generate_tree_string up to the loop: the iterator and the root's line
TreeBegin ==
    /\ pc = "tree"
    /\ iter' = skip1(TreeWalk(root, 0))
    /\ branches' = <<RootLine>>
    /\ walks' = Walked(walks, SortWalks)
    /\ pc' = "loop"
    /\ UNCHANGED <<fs, root, args, summary, size_str, fmt_size>>

\* TreeBranch's Display: the spacer, "/" for a directory, the file name
branch_string(entry) ==
    [spacer |-> IF metadata(entry).ok THEN " " ELSE "!",
     slash |-> file_type_is_dir(entry),
     name |-> file_name(entry)]

\* the (indent, branch) pair of an entry, next being the peeked entry
indent_branch(entry, next) ==
    LET path_components_count == components_count(entry)
        depth_diff == path_components_count - components_count(root)
    IN  IF next.some
        THEN [indent |-> [token |-> "INDENT", count |-> depth_diff - 1],
              branch |-> IF components_count(next.val) < path_components_count
                         THEN "BRANCH_LAST" ELSE "BRANCH"]
        ELSE [indent |-> [token |-> "BRANCH_LAST", count |-> depth_diff - 1],
              branch |-> "BRANCH_LAST"]

\* `depth_diff == depth || !entry_is_dir`
annotated(entry) ==
    (components_count(entry) - components_count(root) = args.depth) \/ ~file_type_is_dir(entry)

\* the " - size" suffix: absent, "???" or a formatted size
size_suffix(entry) ==
    IF ~(annotated(entry) /\ args.show_size) THEN [shown |-> FALSE, known |-> FALSE, str |-> NoFmt]
    ELSE IF file_type_is_dir(entry)
         THEN [shown |-> TRUE, known |-> TRUE,
               str |-> size_in_bytes_pretty_string(U64(dir_size(entry)[1]))]
    ELSE IF metadata(entry).ok
         THEN [shown |-> TRUE, known |-> TRUE,
               str |-> size_in_bytes_pretty_string(U64(metadata(entry).val.len))]
    ELSE [shown |-> TRUE, known |-> FALSE, str |-> NoFmt]

\* the " (time)" suffix: absent, " (???)" or a time
date_suffix(entry) ==
    LET maybe_file_time ==
            CASE args.sort_type = "ModifiedDate" /\ metadata(entry).ok -> Some(modified(entry))
              [] args.sort_type = "CreatedDate" /\ metadata(entry).ok -> Some(created(entry))
              [] OTHER -> None
    IN  IF ~annotated(entry) \/ ~maybe_file_time.some
        THEN [shown |-> FALSE, known |-> FALSE, time |-> 0]
        ELSE IF maybe_file_time.val.ok
             THEN [shown |-> TRUE, known |-> TRUE, time |-> maybe_file_time.val.val]
             ELSE [shown |-> TRUE, known |-> FALSE, time |-> 0]

\* the directories dir_size walks for the line of an entry
line_walks(entry) ==
    IF annotated(entry) /\ args.show_size /\ file_type_is_dir(entry) THEN <<entry>> ELSE <<>>

Line(entry, next) ==
    [is_root |-> FALSE,
     entry |-> entry,
     indent |-> indent_branch(entry, next).indent,
     branch |-> indent_branch(entry, next).branch,
     text |-> branch_string(entry),
     size |-> size_suffix(entry),
     date |-> date_suffix(entry)]

\* one turn of `while let Some(entry) = peekable_tree_iter.next()`
TreeStep ==
    /\ pc = "loop"
    /\ iter # <<>>
    /\ LET entry == Head(iter)
           next_entry == IF Tail(iter) = <<>> THEN None ELSE Some(Head(Tail(iter)))
       IN  /\ branches' = Append(branches, Line(entry, next_entry))
           /\ walks' = Walked(walks, line_walks(entry))
    /\ iter' = Tail(iter)
    /\ UNCHANGED <<fs, root, args, pc, summary, size_str, fmt_size>>

\* the iterator is exhausted: branches.join("\n") is returned and printed
TreeEnd ==
    /\ pc = "loop"
    /\ iter = <<>>
    /\ pc' = "done"
    /\ UNCHANGED <<fs, root, args, summary, size_str, fmt_size, iter, branches, walks>>

Next == Main \/ TreeBegin \/ TreeStep \/ TreeEnd

Spec == Init /\ [][Next]_vars

(***************************************************************************)
(* size_in_bytes_pretty_string on its own, over FmtInputs                  *)
(***************************************************************************)
InitFmt ==
    /\ root = <<NameA>>
    /\ fs = [p \in {root} |-> DirNode]
    /\ args = [depth |-> 1, sort_type |-> "Name", no_hidden |-> FALSE,
               show_size |-> FALSE, reverse_sort |-> FALSE]
    /\ pc = "fmt"
    /\ summary = <<0, 0>>
    /\ size_str = NoFmt
    /\ fmt_size \in FmtInputs
    /\ iter = <<>>
    /\ branches = <<>>
    /\ walks = [p \in DOMAIN fs |-> 0]

Format ==
    /\ pc = "fmt"
    /\ size_str' = size_in_bytes_pretty_string(fmt_size)
    /\ pc' = "fmt_done"
    /\ UNCHANGED <<fs, root, args, summary, fmt_size, iter, branches, walks>>

NextFmt == Format

SpecFmt == InitFmt /\ [][NextFmt]_vars

(***************************************************************************)
(* The same program run on the inputs that exercise the metadata sorts:    *)
(* up to MaxSortNodes entries below a root that is not hidden, sorted by   *)
(* Size, ModifiedDate or CreatedDate, every entry shown.                   *)
(***************************************************************************)
SortShapes ==
    { S \in SUBSET RelCand :
        /\ Cardinality(S) <= MaxSortNodes
        /\ \A q \in S : Len(q) > 1 => Parent(q) \in S }

SortArgs ==
    { a \in TreeArgs : a.sort_type # "Name" /\ ~a.no_hidden /\ ~a.show_size }

InitSort ==
    /\ root = <<NameA>>
    /\ \E S \in SortShapes : fs \in FileSystems(root, S)
    /\ args \in SortArgs
    /\ pc = "main"
    /\ summary = <<0, 0>>
    /\ size_str = NoFmt
    /\ fmt_size = Zero
    /\ iter = <<>>
    /\ branches = <<>>
    /\ walks = [p \in DOMAIN fs |-> 0]

SpecSort == InitSort /\ [][Next]_vars

(***************************************************************************)
(* main.rs: generate_tree_string, the function main.rs itself calls        *)
(***************************************************************************)
\* the predicate main.rs gives to filter_entry
main_filter_pred(e) == ~args.no_hidden \/ Head(file_name(e)) # 46

RECURSIVE MainWalk(_, _), MainWalkList(_, _)
MainWalk(e, d) ==
    IF ~main_filter_pred(e) THEN <<>>
    ELSE <<e>> \o (IF file_type_is_dir(e) /\ d < args.depth
                   THEN MainWalkList(sort_by("main", read_dir(e)), d + 1) ELSE <<>>)
MainWalkList(l, d) ==
    IF l = <<>> THEN <<>> ELSE MainWalk(Head(l), d) \o MainWalkList(Tail(l), d)

\* the closure of the last filter_map: the line of an entry
main_line(entry, next) ==
    IF components_count(entry) - components_count(root) = 0 THEN RootLine
    ELSE [is_root |-> FALSE,
          entry |-> entry,
          indent |-> indent_branch(entry, next).indent,
          branch |-> indent_branch(entry, next).branch,
          text |-> [spacer |-> " ", slash |-> file_type_is_dir(entry), name |-> file_name(entry)],
          size |-> IF ~args.show_size THEN [shown |-> FALSE, known |-> FALSE, str |-> NoFmt]
                   ELSE [shown |-> TRUE, known |-> TRUE,
                         str |-> size_in_bytes_pretty_string(U64(
                                     IF file_type_is_dir(entry) THEN dir_size(entry)[1]
                                     ELSE file_len(entry)))],
          date |-> [shown |-> FALSE, known |-> FALSE, time |-> 0]]

\* the lines joined by "\n"
main_generate_tree_string ==
    LET w == MainWalk(root, 0)
    IN  [i \in 1..Len(w) |-> main_line(w[i], IF i < Len(w) THEN Some(w[i + 1]) ELSE None)]

(***************************************************************************)
(* Properties                                                              *)
(***************************************************************************)
IsPrefix(p, q) == Len(p) <= Len(q) /\ SubSeq(q, 1, Len(p)) = p

Descendants(p) == { q \in DOMAIN fs : IsPrefix(p, q) /\ q # p }

RegularFiles(p) == { q \in Descendants(p) : fs[q].ty = "file" }

RECURSIVE SumLen(_)
SumLen(S) == IF S = {} THEN 0 ELSE LET q == CHOOSE x \in S : TRUE IN fs[q].len + SumLen(S \ {q})

\* the regular files below p whose metadata can be read: an unreadable file
\* contributes nothing to a size
ReadableFiles(p) == { q \in RegularFiles(p) : fs[q].meta_ok }

\* every directory below and including p can be listed, every file's metadata read
AllReadable(p) ==
    \A q \in Descendants(p) \cup {p} :
        /\ fs[q].ty = "dir" => fs[q].read_ok
        /\ fs[q].meta_ok

Depth(q) == Len(q) - Len(root)

\* some component of q below the root starts with '.'
HiddenBelowRoot(q) == \E k \in (Len(root) + 1)..Len(q) : Head(q[k]) = 46

\* the descendants of the root a render has to show
Visible ==
    { q \in Descendants(root) :
        /\ Depth(q) <= args.depth
        /\ args.no_hidden => ~HiddenBelowRoot(q) }

EntryLines == 2..Len(branches)

\* C1: for every directory dir_size has walked whose entries are all readable,
\* the bytes are the sum of the lengths of the regular files below it (symlinks
\* not followed) and the files their number; directories and symlinks add
\* nothing, so a directory without files gives (0, 0).
C1_DirSizeSumsRegularFiles ==
    /\ (pc \notin {"main", "fmt", "fmt_done"} /\ AllReadable(root)) =>
           summary = <<SumLen(RegularFiles(root)), Cardinality(RegularFiles(root))>>
    /\ \A p \in DOMAIN fs :
           (walks[p] > 0 /\ AllReadable(p)) =>
               /\ dir_size(p) = <<SumLen(RegularFiles(p)), Cardinality(RegularFiles(p))>>
               /\ RegularFiles(p) = {} => dir_size(p) = <<0, 0>>

\* a run that summed a file in a subdirectory next to a symlink
C1_Witness ==
    /\ pc = "done"
    /\ AllReadable(root)
    /\ \E q \in RegularFiles(root) : Depth(q) = 2 /\ summary = <<fs[q].len, 1>>
    /\ \E p \in DOMAIN fs : Depth(p) = 1 /\ walks[p] > 0

\* a run over a root holding only a symlink: (0, 0)
C1_WitnessSymlink ==
    /\ pc = "done"
    /\ \E q \in Descendants(root) : fs[q].ty = "symlink"
    /\ summary = <<0, 0>>

\* the lines ls are the root line followed by exactly one line for each
\* descendant to show, a parent before its children
RootThenVisible(ls) ==
    /\ Len(ls) >= 1 /\ ls[1] = RootLine
    /\ \A i \in 2..Len(ls) : ~ls[i].is_root /\ ls[i].entry \in Visible
    /\ \A q \in Visible : Cardinality({ i \in 2..Len(ls) : ls[i].entry = q }) = 1
    /\ \A i, j \in 2..Len(ls) : ls[i].entry = Parent(ls[j].entry) => i < j

\* C2: the output is the root line followed by exactly one line for each
\* non-pruned descendant at depth <= maxDepth, parent before children, and no
\* line for anything deeper (for the renderer of tree.rs and that of main.rs).
C2_LinesAreVisibleDescendants ==
    pc = "done" =>
        /\ RootThenVisible(branches)
        /\ RootThenVisible(main_generate_tree_string)

\* the same, for the runs in which the root is not filtered out as hidden
C2_UnlessRootHidden ==
    (args.no_hidden /\ Head(file_name(root)) = 46) \/ C2_LinesAreVisibleDescendants

\* C3: within a sibling group every entry rendered as a directory precedes
\* every entry rendered as a non-directory, whatever the sort mode and
\* reverse_sort.
C3_RenderedDirsFirst ==
    \A i, j \in EntryLines :
        (/\ i < j
         /\ Parent(branches[i].entry) = Parent(branches[j].entry)
         /\ branches[j].text.slash) => branches[i].text.slash

C5_AnnotationOnlyFilesAndBoundaryDirs ==
    \A i \in EntryLines :
        LET l == branches[i] IN
        /\ (l.size.shown \/ l.date.shown) =>
               \/ fs[l.entry].ty = "file"
               \/ fs[l.entry].ty = "dir" /\ Depth(l.entry) = args.depth
        /\ (l.size.shown /\ fs[l.entry].ty = "dir") =>
               l.size.str = size_in_bytes_pretty_string(U64(SumLen(ReadableFiles(l.entry))))

\* C6: within one run the size computation walks any path at most once.
C6_WalkedAtMostOnce == \A p \in DOMAIN walks : walks[p] <= 1

\* C7: a size query on an unreadable root is not a successful (0, 0); an
\* unreadable descendant contributes zero bytes and zero files.
C7_RootErrorAndSilentDescendants ==
    pc \notin {"main", "fmt", "fmt_done"} =>
        IF ~fs[root].read_ok THEN summary # <<0, 0>>
        ELSE summary = <<SumLen(ReadableFiles(root)), Cardinality(ReadableFiles(root))>>

\* the position of the most significant non-zero limb, 1 for zero
TopLimb(l) == IF IsZero(l) THEN 1 ELSE CHOOSE k \in 1..Limbs : l[k] # 0 /\ \A j \in (k + 1)..Limbs : l[j] = 0

\* C8: for every u64 the formatter returns normally with the largest unit of
\* B, KB, MB, GB, TB whose scaled value is below 1024, TB from 1024 TB on.
C8_FormatterTotalWithCappedUnit ==
    pc = "fmt_done" =>
        /\ ~size_str.panic
        /\ size_str.unit = SIZES[IF TopLimb(fmt_size) > 5 THEN 5 ELSE TopLimb(fmt_size)]

\* C9: the number printed has at most two fractional digits and no trailing
\* fractional zero; bytes are whole; 0 -> "0 B", 1048576 -> "1 MB",
\* 1536 -> "1.5 KB".
C9_TwoDigitsTrimmed ==
    (pc = "fmt_done" /\ ~size_str.panic) =>
        /\ Len(size_str.frac) <= 2
        /\ size_str.frac # <<>> => size_str.frac[Len(size_str.frac)] # 0
        /\ size_str.unit = "B" => size_str.frac = <<>>
        /\ fmt_size = Zero => size_str = [panic |-> FALSE, whole |-> 0, frac |-> <<>>, unit |-> "B"]
        /\ fmt_size = [Zero EXCEPT ![3] = 1] =>
               size_str = [panic |-> FALSE, whole |-> 1, frac |-> <<>>, unit |-> "MB"]
        /\ fmt_size = [Zero EXCEPT ![1] = 512, ![2] = 1] =>
               size_str = [panic |-> FALSE, whole |-> 1, frac |-> <<5>>, unit |-> "KB"]

\* the lines ls start with the root line and show every descendant to show
RootFirstAllShown(ls) ==
    /\ ls # <<>> /\ ls[1] = RootLine
    /\ \A q \in Visible : \E i \in 2..Len(ls) : ls[i].entry = q

\* C10: the root is the first line and is not subject to the hidden filter:
\* also for a root whose own name starts with '.', a render with no_hidden
\* shows the root line and the root's non-hidden descendants within maxDepth.
C10_RootNeverFiltered ==
    pc = "done" =>
        /\ RootFirstAllShown(branches)
        /\ RootFirstAllShown(main_generate_tree_string)

\* the size an entry is to be sorted by: the aggregate of a directory, the
\* metadata length of anything else
SizeOf(q) == IF fs[q].ty = "dir" THEN SumLen(ReadableFiles(q)) ELSE fs[q].len

\* q is a directory or a regular file, and its size can be read
SizeKnown(q) == fs[q].ty = "dir" \/ (fs[q].ty = "file" /\ fs[q].meta_ok)

\* lines i < j of entries of one sibling group and one kind, sizes known
SameKindSiblings(i, j) ==
    /\ i < j
    /\ Parent(branches[i].entry) = Parent(branches[j].entry)
    /\ fs[branches[i].entry].ty = fs[branches[j].entry].ty
    /\ SizeKnown(branches[i].entry) /\ SizeKnown(branches[j].entry)

\* C11: sorted by Size, the directories of a sibling group appear in
\* non-increasing order of aggregate size and so do its files in order of
\* length; with reverse_sort the order is non-decreasing.
C11_SizeOrder ==
    args.sort_type = "Size" =>
        \A i, j \in EntryLines :
            SameKindSiblings(i, j) =>
                IF args.reverse_sort
                THEN SizeOf(branches[i].entry) <= SizeOf(branches[j].entry)
                ELSE SizeOf(branches[i].entry) >= SizeOf(branches[j].entry)

\* the metadata of every entry of the sibling group of line i can be read
GroupReadable(i) ==
    \A q \in Children(Parent(branches[i].entry)) : fs[q].meta_ok

\* the same order, for the sibling groups in which every metadata can be read
C11_WhenMetadataReadable ==
    args.sort_type = "Size" =>
        \A i, j \in EntryLines :
            (SameKindSiblings(i, j) /\ GroupReadable(i)) =>
                IF args.reverse_sort
                THEN SizeOf(branches[i].entry) <= SizeOf(branches[j].entry)
                ELSE SizeOf(branches[i].entry) >= SizeOf(branches[j].entry)

\* a finished render by Size of three files of which two differ in length
C11_ThreeFiles ==
    /\ pc = "done"
    /\ args.sort_type = "Size"
    /\ Len(branches) = 4
    /\ \A i \in EntryLines : fs[branches[i].entry].ty = "file" /\ fs[branches[i].entry].meta_ok
    /\ \E i, j \in EntryLines : fs[branches[i].entry].len # fs[branches[j].entry].len

\* the lines of ls that are not the root's
NonRoot(ls) == { i \in 1..Len(ls) : ~ls[i].is_root }

\* no line after line i is for an entry of the same parent directory
LastSibling(ls, i) ==
    \A j \in NonRoot(ls) : j > i => Parent(ls[j].entry) # Parent(ls[i].entry)

\* line i is followed by the line of a child of its entry
Expanded(ls, i) ==
    i < Len(ls) /\ ~ls[i + 1].is_root /\ Parent(ls[i + 1].entry) = ls[i].entry

\* the terminal mark is on the last sibling of each directory and nowhere else
TerminalIffLast(ls) ==
    \A i \in NonRoot(ls) :
        /\ ls[i].branch \in {"BRANCH", "BRANCH_LAST"}
        /\ ls[i].branch = "BRANCH_LAST" <=> LastSibling(ls, i)

\* C12: in the finished render a non-root entry has the terminal mark if and
\* only if it is the last sibling of its parent in the rendered order, and the
\* continuation mark otherwise, also when it is a directory whose children
\* are shown (for the renderer of tree.rs and that of main.rs).
C12_TerminalMarkIffLastSibling ==
    pc = "done" =>
        /\ TerminalIffLast(branches)
        /\ TerminalIffLast(main_generate_tree_string)

\* what the renderers do: the terminal mark is on the last siblings whose
\* children are not shown
TerminalIffLastLeaf(ls) ==
    \A i \in NonRoot(ls) :
        ls[i].branch = (IF LastSibling(ls, i) /\ ~Expanded(ls, i) THEN "BRANCH_LAST" ELSE "BRANCH")

C12_TerminalOnUnexpandedLast ==
    pc = "done" =>
        /\ TerminalIffLastLeaf(branches)
        /\ TerminalIffLastLeaf(main_generate_tree_string)

\* the same as C12 for the tree.rs renderer alone
C12_TreeOnly == pc = "done" => TerminalIffLast(branches)

\* the same as C12 for the main.rs renderer alone
C12_MainOnly == pc = "done" => TerminalIffLast(main_generate_tree_string)

\* str::repeat: the indent as the sequence of its tokens
Repeat(token, n) == [k \in 1..n |-> token]

IndentText(l) == Repeat(l.indent.token, l.indent.count)

\* every non-root line of ls is indented by the vertical-continuation token
\* once per level above its entry
IndentedByLevel(ls) ==
    \A i \in NonRoot(ls) :
        /\ 1 <= Depth(ls[i].entry) /\ Depth(ls[i].entry) <= args.depth
        /\ IndentText(ls[i]) = Repeat("INDENT", Depth(ls[i].entry) - 1)
        /\ ls[i].branch \in {"BRANCH", "BRANCH_LAST"}

\* C13: every non-root line of an entry at depth d, 1 <= d <= maxDepth, begins
\* with the vertical-continuation token repeated d - 1 times followed by its
\* branch glyph, whether or not another entry follows it in the walk (for the
\* renderer of tree.rs and that of main.rs).
C13_IndentIsContinuationPerLevel ==
    /\ IndentedByLevel(branches)
    /\ pc = "done" => IndentedByLevel(main_generate_tree_string)

\* what the renderers do: d - 1 tokens on every line, the token of the last
\* line of the output being the terminal mark
IndentedButLast(ls) ==
    \A i \in NonRoot(ls) :
        IndentText(ls[i]) =
            Repeat(IF i = Len(ls) THEN "BRANCH_LAST" ELSE "INDENT", Depth(ls[i].entry) - 1)

C13_ContinuationExceptLastLine ==
    pc = "done" =>
        /\ IndentedButLast(branches)
        /\ IndentedButLast(main_generate_tree_string)

\* a finished render whose last line is at depth 2
C13_DeepLastLine ==
    /\ pc = "done"
    /\ Len(branches) > 1
    /\ Depth(branches[Len(branches)].entry) = 2

\* the metadata the sort needs of q cannot be read (the size of a directory
\* needs none)
KeyFails(q) ==
    /\ args.sort_type # "Name"
    /\ ~fs[q].meta_ok
    /\ args.sort_type = "Size" => fs[q].ty # "dir"

\* a and b are of one kind and the metadata of exactly one of them fails
OneFails(a, b) == fs[a].ty = fs[b].ty /\ KeyFails(a) # KeyFails(b)

\* the pairs the comparator has been called on in this run
ComparedPairs == IF pc \in {"loop", "done"} THEN walk_compares(SortedDirs) ELSE <<>>

\* C14: sorting by Size, ModifiedDate or CreatedDate, a comparison of two
\* siblings of one kind of which exactly one has unavailable metadata yields an
\* ordering that puts that one after the other, whichever argument it is; in
\* the finished render no entry with unavailable metadata precedes a sibling
\* of its kind whose metadata is available.
C14_FailedMetadataSortsLast ==
    /\ \A k \in 1..Len(ComparedPairs) :
           LET a == ComparedPairs[k][1]
               b == ComparedPairs[k][2]
           IN  /\ compare(a, b) \in {"Less", "Equal", "Greater"}
               /\ OneFails(a, b) =>
                      compare(a, b) = (IF KeyFails(a) THEN "Greater" ELSE "Less")
    /\ pc = "done" =>
           \A i, j \in EntryLines :
               (/\ i < j
                /\ Parent(branches[i].entry) = Parent(branches[j].entry)
                /\ OneFails(branches[i].entry, branches[j].entry)) =>
                   KeyFails(branches[j].entry)

\* what the comparator does: when the metadata of either argument fails, the
\* first argument is ordered before the second, after it with reverse_sort
C14_FallbackByArgumentPosition ==
    \A k \in 1..Len(ComparedPairs) :
        LET a == ComparedPairs[k][1]
            b == ComparedPairs[k][2]
        IN  (fs[a].ty = fs[b].ty /\ (KeyFails(a) \/ KeyFails(b))) =>
                compare(a, b) = (IF args.reverse_sort THEN "Greater" ELSE "Less")

\* the comparator part of C14 alone
C14_ComparatorOnly ==
    \A k \in 1..Len(ComparedPairs) :
        OneFails(ComparedPairs[k][1], ComparedPairs[k][2]) =>
            compare(ComparedPairs[k][1], ComparedPairs[k][2]) =
                (IF KeyFails(ComparedPairs[k][1]) THEN "Greater" ELSE "Less")

\* the render part of C14 alone
C14_RenderOnly ==
    pc = "done" =>
        \A i, j \in EntryLines :
            (/\ i < j
             /\ Parent(branches[i].entry) = Parent(branches[j].entry)
             /\ OneFails(branches[i].entry, branches[j].entry)) =>
                KeyFails(branches[j].entry)

====
